---- MODULE Spec2Model ----
(***************************************************************************)
(* Capture-and-detection pipeline of the OT/ICS security backend.          *)
(*                                                                         *)
(*   PCAPService  (backend/services/pcap_service.py): capture session,     *)
(*                 rolling capture files, ledger (file_list), pin set      *)
(*                 (prioritized_files), cleanup, severity bucketing.       *)
(*   MLService    (backend/services/ml_service.py): ensemble scoring.      *)
(*                                                                         *)
(* Capture files are identified by the order in which their names were     *)
(* generated (a file name embeds the timestamp of its creation), so a      *)
(* larger identifier is a more recent file.  filename and path of a file   *)
(* determine each other (path = PCAP_STORAGE_DIR/filename) and are both    *)
(* represented by the identifier.  The directory is the sequence `disk` of *)
(* the files that exist, in st_ctime order (oldest first).                 *)
(*                                                                         *)
(* _create_new_pcap_file is declared `def` but contains                    *)
(* `await self._cleanup_old_files()`; it is modelled as written, with the  *)
(* cleanup running inline before the path is returned.                     *)
(*                                                                         *)
(* Scores are in hundredths (0.7 is 70).                                   *)
(***************************************************************************)
EXTENDS Integers, Sequences, FiniteSets, TLC

\* ---------------------------------------------------------------- bounds
\* capture files already in PCAP_STORAGE_DIR when the service is constructed
InitDiskFiles == 14
\* capture files named by _create_new_pcap_file after construction
MaxCaptureFiles == 2
\* external files uploaded
MaxUploads == 1
\* ring-buffer files opened by tshark
MaxTsharkFiles == 1
\* uploads during one session in the retention scenario
RetentionUploads == 15
\* concurrently live _capture_loop tasks
MaxLoops == 2
\* concurrently live _monitor_wireshark_process tasks
MaxMonitors == 1
MaxDetections == 20
\* settings.MAX_PACKETS_PER_FILE (deployment setting, default 10000)
MAX_PACKETS_PER_FILE == 100

\* ------------------------------------------------------ program constants
file_list_maxlen == 15
max_files_to_keep == 15
InitListLimit == 15
SniffCount == 100

NoFile == 0

VARIABLES
    capture_active,        \* self.capture_active
    wireshark_process,     \* self.wireshark_process: "None", "running", "exited"
    capture_loops,         \* number of live _capture_loop tasks
    monitors,              \* number of live _monitor_wireshark_process tasks
    current_file_path,     \* self.current_file_path (NoFile is None)
    packet_count,          \* self.packet_count
    file_rotation_timer,   \* self.file_rotation_timer: "None", "pending", "cancelled", "finished"
    file_list,             \* self.file_list, the ledger (leftmost entry first)
    prioritized_files,     \* self.prioritized_files (paths)
    disk,                  \* files in PCAP_STORAGE_DIR, oldest st_ctime first
    nextId,                \* timestamp of the next generated file name
    capture_budget,        \* capture files that may still be named
    upload_budget,         \* uploads that may still happen
    tshark_budget,         \* files tshark may still open
    last_op                \* the last operation executed and its outcome

VARIABLES
    sample,                \* the detector outputs and feature record being scored
    pc,                    \* position in analyze_network_traffic for the sample
    threat_score,          \* prediction['threat_score'] (hundredths)
    threat_type,           \* prediction['threat_type']
    confidence,            \* prediction['confidence'] (thousandths)
    severity,              \* result of _calculate_severity ("" before the call)
    alerts                 \* alerts created by _check_for_threats for the sample

VARIABLES
    rotate_pc,             \* _rotate_file on the timer thread: "idle", "checked"
    capture_pc,            \* _capture_packets: "idle", "writing" (inside wrpcap)
    write_target,          \* the path wrpcap was called with
    write_n                \* the number of packets of the batch being written

VARIABLES
    active_connections,    \* ConnectionManager.active_connections
    bc_pc,                 \* broadcast: "idle", "sending", "blocked", "raised"
    bc_index,              \* list index of the for loop of broadcast
    bc_connection,         \* broadcast: the connection being sent to
    disconnected,          \* the local list `disconnected` of broadcast
    delivered,             \* connections whose send_text completed, in order
    bc_snapshot,           \* active_connections when the broadcast began
    bc_undisturbed,        \* no connect or disconnect since the broadcast began
    nextConn               \* the next websocket to connect

VARIABLES
    batch,                 \* the packets of the batch being processed
    batch_features,        \* result of _extract_packet_features (packet positions)
    predictions,           \* result of analyze_network_traffic
    alert_log,             \* the alerts _create_threat_alert has built
    batch_pc,              \* "idle", "captured", "extracted", "scored", "checked"
    skipped_counter        \* packets counted as skipped by feature extraction

VARIABLES
    detected_files         \* the files _check_for_new_files has treated as new, in order

scoreVars == <<sample, pc, threat_score, threat_type, confidence, severity, alerts>>

raceVars == <<rotate_pc, capture_pc, write_target, write_n>>

bcVars == <<active_connections, bc_pc, bc_index, bc_connection, disconnected, delivered,
            bc_snapshot, bc_undisturbed, nextConn>>

batchVars == <<batch, batch_features, predictions, alert_log, batch_pc, skipped_counter>>

mlVars == <<detected_files>>

pcapVars == <<capture_active, wireshark_process, capture_loops, monitors,
              current_file_path, packet_count, file_rotation_timer,
              file_list, prioritized_files, disk, nextId, last_op,
              capture_budget, upload_budget, tshark_budget>>

\* ---------------------------------------------------------------- helpers
Range(s) == {s[i] : i \in 1..Len(s)}

Min(S) == CHOOSE x \in S : \A y \in S : x <= y

RECURSIVE SeqFilter(_, _)
\* the sequence s without the elements of the set R (order kept)
SeqFilter(s, R) ==
    IF s = <<>> THEN <<>>
    ELSE IF Head(s) \in R THEN SeqFilter(Tail(s), R)
         ELSE <<Head(s)>> \o SeqFilter(Tail(s), R)

Reverse(s) == [i \in 1..Len(s) |-> s[Len(s) + 1 - i]]

\* all orders in which the elements of a finite set can be iterated
RECURSIVE Orders(_)
Orders(S) ==
    IF S = {} THEN {<<>>}
    ELSE UNION {{<<x>> \o o : o \in Orders(S \ {x})} : x \in S}

\* a ledger entry as _create_new_pcap_file, _check_for_new_files and
\* _initialize_file_list make it: 'packet_count': 0
Entry(f) == [filename |-> f, prioritized |-> FALSE, packet_count |-> 0]

\* the number of packets in an uploaded file
UploadPackets == 7

\* the entry upload_external_file makes: packet_count is counted from the file
UploadEntry(f) == [Entry(f) EXCEPT !.packet_count = UploadPackets]

Filenames(fl) == {fl[i].filename : i \in 1..Len(fl)}

\* a ledger without maxlen
DequeAppendUnbounded(fl, e) == Append(fl, e)

\* deque(maxlen=15).append: a full deque discards its leftmost entry
DequeAppend(fl, e) ==
    IF Len(fl) >= file_list_maxlen THEN Append(Tail(fl), e) ELSE Append(fl, e)

RECURSIVE AppendAll(_, _)
AppendAll(fl, fs) ==
    IF fs = <<>> THEN fl
    ELSE AppendAll(DequeAppend(fl, Entry(Head(fs))), Tail(fs))

\* _cleanup_old_files: with more than max_files_to_keep files in the
\* directory, the files before the max_files_to_keep newest are removed,
\* except those whose path is in prioritized_files
CleanupOldFiles(d, prio) ==
    IF Len(d) <= max_files_to_keep THEN d
    ELSE LET files_to_remove == Range(SubSeq(d, 1, Len(d) - max_files_to_keep))
         IN  SeqFilter(d, files_to_remove \ prio)

\* _initialize_file_list: the 15 newest files of the directory, appended
\* newest first
InitializeFileList(fl, d) ==
    LET newest_first == Reverse(d)
        recent_files == SubSeq(newest_first, 1,
                               IF Len(d) < InitListLimit THEN Len(d) ELSE InitListLimit)
    IN  AppendAll(fl, recent_files)

\* wrpcap(path, packets, append=True): creates the file when it is missing
WritePcap(d, f) == IF f \in Range(d) THEN d ELSE Append(d, f)

\* the record of the latest operation; timer_started tells whether the
\* operation called _start_rotation_timer
Op(name, arg, ok) ==
    [op |-> name, arg |-> arg, ok |-> ok, after_flag |-> FALSE,
     timer_started |-> FALSE]

OpWithTimer(name, arg, ok) == [Op(name, arg, ok) EXCEPT !.timer_started = TRUE]

nonPcapVars == <<scoreVars, raceVars, bcVars, batchVars, mlVars>>

\* ------------------------------------------------------------------ Init
\* the service after __init__, with the given numbers of files that may
\* still be created
PcapConstructed(captures, uploads, tshark_files) ==
    /\ capture_active = FALSE
    /\ wireshark_process = "None"
    /\ capture_loops = 0
    /\ monitors = 0
    /\ current_file_path = NoFile
    /\ packet_count = 0
    /\ file_rotation_timer = "None"
    /\ file_list = <<>>
    /\ prioritized_files = {}
    /\ disk = [i \in 1..InitDiskFiles |-> i]
    /\ nextId = InitDiskFiles + 1
    /\ last_op = Op("init", NoFile, TRUE)
    /\ capture_budget = captures
    /\ upload_budget = uploads
    /\ tshark_budget = tshark_files

PcapInit == PcapConstructed(MaxCaptureFiles, MaxUploads, MaxTsharkFiles)

NoSample == [iso |-> "absent"]

\* no sample is being scored
ScoreIdle ==
    /\ sample = NoSample
    /\ pc = "idle"
    /\ threat_score = 0
    /\ threat_type = "Normal"
    /\ confidence = 0
    /\ severity = ""
    /\ alerts = 0

\* no call of _rotate_file or _capture_packets is in progress
RaceIdle ==
    /\ rotate_pc = "idle"
    /\ capture_pc = "idle"
    /\ write_target = NoFile
    /\ write_n = 0

\* ConnectionManager.__init__
BroadcastIdle ==
    /\ active_connections = <<>>
    /\ bc_pc = "idle"
    /\ bc_index = 0
    /\ bc_connection = 0
    /\ disconnected = <<>>
    /\ delivered = <<>>
    /\ bc_snapshot = <<>>
    /\ bc_undisturbed = TRUE
    /\ nextConn = 1

\* no batch has been captured
BatchIdle ==
    /\ batch = <<>>
    /\ batch_features = <<>>
    /\ predictions = <<>>
    /\ alert_log = <<>>
    /\ batch_pc = "idle"
    /\ skipped_counter = 0

\* no file has been detected
MlIdle == detected_files = <<>>

\* names the management API is called with
FlagNames == {1, InitDiskFiles}

\* ------------------------------------------------------------ operations
\* start_capture_service, a call while a session is active
StartRejected ==
    /\ capture_active
    /\ last_op' = Op("start", NoFile, FALSE)
    /\ UNCHANGED <<capture_active, wireshark_process, capture_loops, monitors,
                   current_file_path, packet_count, file_rotation_timer,
                   file_list, prioritized_files, disk, nextId,
                   capture_budget, upload_budget, tshark_budget>>
    /\ UNCHANGED nonPcapVars

\* a start that does not look at capture_active
StartScapyUnguarded ==
    /\ capture_loops < MaxLoops
    /\ capture_active' = TRUE
    /\ file_list' = InitializeFileList(file_list, disk)
    /\ capture_loops' = capture_loops + 1
    /\ file_rotation_timer' = "pending"
    /\ last_op' = OpWithTimer("start", NoFile, TRUE)
    /\ UNCHANGED <<wireshark_process, monitors, current_file_path, packet_count,
                   prioritized_files, disk, nextId,
                   capture_budget, upload_budget, tshark_budget>>
    /\ UNCHANGED nonPcapVars

\* start_capture_service with the Scapy backend (use_wireshark false or
\* tshark not installed): _initialize_file_list, create_task(_capture_loop),
\* _start_rotation_timer
StartScapy ==
    /\ ~capture_active
    /\ capture_loops < MaxLoops
    /\ capture_active' = TRUE
    /\ file_list' = InitializeFileList(file_list, disk)
    /\ capture_loops' = capture_loops + 1
    /\ file_rotation_timer' = "pending"
    /\ last_op' = OpWithTimer("start", NoFile, TRUE)
    /\ UNCHANGED <<wireshark_process, monitors, current_file_path, packet_count,
                   prioritized_files, disk, nextId,
                   capture_budget, upload_budget, tshark_budget>>
    /\ UNCHANGED nonPcapVars

\* start_capture_service with tshark: _initialize_file_list,
\* _start_wireshark_capture (first file, Popen, monitor task; the Scapy loop
\* when Popen raises), _start_rotation_timer
StartWireshark(popen_ok) ==
    /\ ~capture_active
    /\ capture_budget > 0
    /\ IF popen_ok THEN monitors < MaxMonitors ELSE capture_loops < MaxLoops
    /\ capture_active' = TRUE
    /\ file_list' = DequeAppend(InitializeFileList(file_list, disk), Entry(nextId))
    /\ disk' = CleanupOldFiles(disk, prioritized_files)
    /\ current_file_path' = nextId
    /\ nextId' = nextId + 1
    /\ capture_budget' = capture_budget - 1
    /\ IF popen_ok
       THEN /\ wireshark_process' = "running"
            /\ monitors' = monitors + 1
            /\ UNCHANGED capture_loops
       ELSE /\ capture_loops' = capture_loops + 1
            /\ UNCHANGED <<wireshark_process, monitors>>
    /\ file_rotation_timer' = "pending"
    /\ last_op' = OpWithTimer("start", NoFile, TRUE)
    /\ UNCHANGED <<packet_count, prioritized_files, upload_budget, tshark_budget>>
    /\ UNCHANGED nonPcapVars

\* stop_capture_service (capture_process is never assigned, so only tshark
\* and the timer are stopped)
stop_capture_service ==
    /\ capture_active' = FALSE
    /\ wireshark_process' = "None"
    /\ file_rotation_timer' =
          IF file_rotation_timer = "pending" THEN "cancelled"
          ELSE file_rotation_timer
    /\ last_op' = Op("stop", NoFile, TRUE)
    /\ UNCHANGED <<capture_loops, monitors, current_file_path, packet_count,
                   file_list, prioritized_files, disk, nextId,
                   capture_budget, upload_budget, tshark_budget>>
    /\ UNCHANGED nonPcapVars

\* a _capture_loop task finds capture_active false and ends
CaptureLoopExit ==
    /\ capture_loops > 0
    /\ ~capture_active
    /\ capture_loops' = capture_loops - 1
    /\ last_op' = Op("loop_exit", NoFile, TRUE)
    /\ UNCHANGED <<capture_active, wireshark_process, monitors,
                   current_file_path, packet_count, file_rotation_timer,
                   file_list, prioritized_files, disk, nextId,
                   capture_budget, upload_budget, tshark_budget>>
    /\ UNCHANGED nonPcapVars

\* _capture_packets, run by a _capture_loop task that finds capture_active
\* true; sniff returns n packets
capture_packets(n) ==
    /\ capture_loops > 0
    /\ capture_active
    /\ LET create == current_file_path = NoFile
                     \/ packet_count >= MAX_PACKETS_PER_FILE
           path   == IF create THEN nextId ELSE current_file_path
           d1     == IF create THEN CleanupOldFiles(disk, prioritized_files)
                     ELSE disk
       IN  /\ create => capture_budget > 0
           /\ current_file_path' = path
           /\ file_list' = IF create THEN DequeAppend(file_list, Entry(path))
                           ELSE file_list
           /\ nextId' = IF create THEN nextId + 1 ELSE nextId
           /\ capture_budget' = IF create THEN capture_budget - 1 ELSE capture_budget
           /\ disk' = IF n > 0 THEN WritePcap(d1, path) ELSE d1
           /\ packet_count' = (IF create THEN 0 ELSE packet_count) + n
           /\ last_op' = Op("capture", path, n > 0)
    /\ UNCHANGED <<capture_active, wireshark_process, capture_loops, monitors,
                   file_rotation_timer, prioritized_files,
                   upload_budget, tshark_budget>>
    /\ UNCHANGED nonPcapVars

\* the rotation timer fires and _rotate_file (timer thread) rotates
RotateFile ==
    /\ file_rotation_timer = "pending"
    /\ capture_active /\ wireshark_process = "None"
    /\ capture_budget > 0
    /\ current_file_path' = nextId
    /\ file_list' = DequeAppend(file_list, Entry(nextId))
    /\ disk' = CleanupOldFiles(disk, prioritized_files)
    /\ nextId' = nextId + 1
    /\ capture_budget' = capture_budget - 1
    /\ packet_count' = 0
    /\ file_rotation_timer' = "pending"
    /\ last_op' = OpWithTimer("rotate", nextId, TRUE)
    /\ UNCHANGED <<capture_active, wireshark_process, capture_loops, monitors,
                   prioritized_files, upload_budget, tshark_budget>>
    /\ UNCHANGED nonPcapVars

\* the rotation timer fires and _rotate_file does nothing (no session, or a
\* tshark session); the timer is not restarted
RotateSkipped ==
    /\ file_rotation_timer = "pending"
    /\ ~(capture_active /\ wireshark_process = "None")
    /\ file_rotation_timer' = "finished"
    /\ last_op' = Op("rotate", NoFile, FALSE)
    /\ UNCHANGED <<capture_active, wireshark_process, capture_loops, monitors,
                   current_file_path, packet_count, file_list,
                   prioritized_files, disk, nextId,
                   capture_budget, upload_budget, tshark_budget>>
    /\ UNCHANGED nonPcapVars

\* tshark (ring buffer mode) opens its next capture file
tshark_writes_file ==
    /\ wireshark_process = "running"
    /\ tshark_budget > 0
    /\ disk' = Append(disk, nextId)
    /\ nextId' = nextId + 1
    /\ tshark_budget' = tshark_budget - 1
    /\ last_op' = Op("tshark_file", nextId, TRUE)
    /\ UNCHANGED <<capture_active, wireshark_process, capture_loops, monitors,
                   current_file_path, packet_count, file_rotation_timer,
                   file_list, prioritized_files, capture_budget, upload_budget>>
    /\ UNCHANGED nonPcapVars

\* the tshark process terminates by itself
tshark_exits ==
    /\ wireshark_process = "running"
    /\ wireshark_process' = "exited"
    /\ last_op' = Op("tshark_exit", NoFile, TRUE)
    /\ UNCHANGED <<capture_active, capture_loops, monitors, current_file_path,
                   packet_count, file_rotation_timer, file_list,
                   prioritized_files, disk, nextId,
                   capture_budget, upload_budget, tshark_budget>>
    /\ UNCHANGED nonPcapVars

\* a _monitor_wireshark_process task ends: loop condition false, or the
\* process has terminated
MonitorExit ==
    /\ monitors > 0
    /\ \/ ~(capture_active /\ wireshark_process # "None")
       \/ wireshark_process = "exited"
    /\ monitors' = monitors - 1
    /\ last_op' = Op("monitor_exit", NoFile, TRUE)
    /\ UNCHANGED <<capture_active, wireshark_process, capture_loops,
                   current_file_path, packet_count, file_rotation_timer,
                   file_list, prioritized_files, disk, nextId,
                   capture_budget, upload_budget, tshark_budget>>
    /\ UNCHANGED nonPcapVars

\* _check_for_new_files, run by an iteration of a monitor task: the files of
\* the directory that no ledger entry names are appended, in the iteration
\* order of a set
check_for_new_files ==
    /\ monitors > 0
    /\ capture_active /\ wireshark_process = "running"
    /\ LET new_files == Range(disk) \ Filenames(file_list)
       IN  /\ Len(detected_files) + Cardinality(new_files) <= MaxDetections
           /\ \E order \in Orders(new_files) :
                  /\ file_list' = AppendAll(file_list, order)
                  /\ detected_files' = detected_files \o order
           /\ last_op' = Op("check_new_files", NoFile, new_files # {})
    /\ UNCHANGED <<capture_active, wireshark_process, capture_loops, monitors,
                   current_file_path, packet_count, file_rotation_timer,
                   prioritized_files, disk, nextId,
                   capture_budget, upload_budget, tshark_budget>>
    /\ UNCHANGED <<scoreVars, raceVars, bcVars, batchVars>>

\* upload_external_file of an existing source file
upload_external_file ==
    /\ upload_budget > 0
    /\ file_list' = DequeAppend(file_list, UploadEntry(nextId))
    /\ disk' = CleanupOldFiles(Append(disk, nextId), prioritized_files)
    /\ nextId' = nextId + 1
    /\ upload_budget' = upload_budget - 1
    /\ last_op' = Op("upload", nextId, TRUE)
    /\ UNCHANGED <<capture_active, wireshark_process, capture_loops, monitors,
                   current_file_path, packet_count, file_rotation_timer,
                   prioritized_files, capture_budget, tshark_budget>>
    /\ UNCHANGED nonPcapVars

\* index of the first ledger entry with the file name, 0 when there is none
FirstMatch(fl, filename) ==
    IF filename \in Filenames(fl)
    THEN Min({i \in 1..Len(fl) : fl[i].filename = filename})
    ELSE 0

FlagEntry(fl, i) == [fl EXCEPT ![i].prioritized = TRUE]

UnflagEntry(fl, i) == [fl EXCEPT ![i].prioritized = FALSE]

\* an unflag that forgets the pin set
UnflagPathKept(prio, path) == prio

UnflagPath(prio, path) == prio \ {path}

flag_file_for_training(filename) ==
    LET i == FirstMatch(file_list, filename)
    IN  /\ IF i # 0
           THEN /\ file_list' = FlagEntry(file_list, i)
                /\ prioritized_files' = prioritized_files \cup {filename}
           ELSE UNCHANGED <<file_list, prioritized_files>>
        /\ last_op' = Op("flag", filename, i # 0)
        /\ UNCHANGED <<capture_active, wireshark_process, capture_loops, monitors,
                       current_file_path, packet_count, file_rotation_timer,
                       disk, nextId, capture_budget, upload_budget, tshark_budget>>
        /\ UNCHANGED nonPcapVars

unflag_file_for_training(filename) ==
    LET i == FirstMatch(file_list, filename)
    IN  /\ IF i # 0
           THEN /\ file_list' = UnflagEntry(file_list, i)
                /\ prioritized_files' = UnflagPath(prioritized_files, filename)
           ELSE UNCHANGED <<file_list, prioritized_files>>
        /\ last_op' = [Op("unflag", filename, i # 0) EXCEPT
                           !.after_flag = (last_op.op = "flag" /\ last_op.ok
                                           /\ last_op.arg = filename)]
        /\ UNCHANGED <<capture_active, wireshark_process, capture_loops, monitors,
                       current_file_path, packet_count, file_rotation_timer,
                       disk, nextId, capture_budget, upload_budget, tshark_budget>>
        /\ UNCHANGED nonPcapVars

vars == <<pcapVars, scoreVars, raceVars, bcVars, batchVars, mlVars>>

Init == PcapInit /\ ScoreIdle /\ RaceIdle /\ BroadcastIdle /\ BatchIdle /\ MlIdle

\* sessions with the in-process (Scapy) backend, uploads and the file
\* management calls
Next ==
    \/ StartRejected
    \/ StartScapy
    \/ StartWireshark(FALSE)
    \/ stop_capture_service
    \/ CaptureLoopExit
    \/ \E n \in {0, SniffCount} : capture_packets(n)
    \/ RotateFile
    \/ upload_external_file
    \/ \E f \in FlagNames : flag_file_for_training(f)
    \/ \E f \in FlagNames : unflag_file_for_training(f)

Spec == Init /\ [][Next]_vars

\* sessions with the tshark backend
NextTshark ==
    \/ StartRejected
    \/ StartWireshark(TRUE)
    \/ stop_capture_service
    \/ RotateSkipped
    \/ tshark_writes_file
    \/ tshark_exits
    \/ MonitorExit
    \/ check_for_new_files

SpecTshark == Init /\ [][NextTshark]_vars

\* one monitored tshark session, never stopped, in which tshark opens
\* DetectTsharkFiles files and files get flagged
DetectTsharkFiles == 2

InitDetect ==
    /\ PcapConstructed(1, 0, DetectTsharkFiles)
    /\ ScoreIdle
    /\ RaceIdle
    /\ BroadcastIdle
    /\ BatchIdle
    /\ MlIdle

NextDetect ==
    \/ StartWireshark(TRUE)
    \/ tshark_writes_file
    \/ check_for_new_files
    \/ \E f \in FlagNames : flag_file_for_training(f)

SpecDetect == InitDetect /\ [][NextDetect]_vars

TypeOK ==
    /\ capture_active \in BOOLEAN
    /\ wireshark_process \in {"None", "running", "exited"}
    /\ capture_loops \in 0..MaxLoops
    /\ monitors \in 0..MaxMonitors
    /\ file_rotation_timer \in {"None", "pending", "cancelled", "finished"}
    /\ capture_budget \in 0..MaxCaptureFiles

\* one Scapy session that receives many uploads
InitRetention ==
    PcapConstructed(1, RetentionUploads, 0) /\ ScoreIdle /\ RaceIdle /\ BroadcastIdle /\ BatchIdle /\ MlIdle

NextRetention ==
    \/ StartRejected
    \/ StartScapy
    \/ stop_capture_service
    \/ CaptureLoopExit
    \/ \E n \in {0, SniffCount} : capture_packets(n)
    \/ upload_external_file

SpecRetention == InitRetention /\ [][NextRetention]_vars

\* ---------------------------------------------------------------- scoring
\* MLService.analyze_network_traffic for one feature row.  A sample is the
\* feature record together with what the models return for it:
\*   iso       "absent" (no isolation forest, or its prediction raises),
\*             "normal" or "anomaly" (predict == -1)
\*   rf_class  NoClass (no trained random forest, or its prediction raises)
\*             or the predicted class; rf_proba is max(proba)
NoClass == -1

ClassProbas == {50, 70, 75, 80, 95}

Samples ==
    [iso : {"absent", "normal", "anomaly"},
     rf_class : {NoClass, 0, 1},
     rf_proba : ClassProbas,
     is_modbus : BOOLEAN,
     is_s7 : BOOLEAN,
     dst_port : {80, 102, 502},
     payload_size : {0, 500, 1000, 1001},
     hour : {5, 6, 22, 23}]

\* a combination that lets the later detector replace the score
LastScore(a, b) == b

\* max(prediction['threat_score'], x)
MaxScore(a, b) == IF a >= b THEN a ELSE b

\* an industrial analysis that misses empty Modbus payloads
AnalyzeIndustrialLargeOnly(features) ==
    LET modbus == /\ features.is_modbus
                  /\ features.dst_port = 502
                  /\ features.payload_size > 1000
        s7     == /\ features.is_s7
                  /\ features.dst_port = 102
                  /\ (features.hour < 6 \/ features.hour > 22)
    IN  IF s7 THEN [is_threat |-> TRUE, score |-> 60, type |-> "S7_Off_Hours"]
        ELSE IF modbus
             THEN [is_threat |-> TRUE, score |-> 80, type |-> "Modbus_Anomaly"]
             ELSE [is_threat |-> FALSE, score |-> 0, type |-> "Normal"]

\* _analyze_industrial_protocols
analyze_industrial_protocols(features) ==
    LET modbus == /\ features.is_modbus
                  /\ features.dst_port = 502
                  /\ (features.payload_size > 1000 \/ features.payload_size = 0)
        s7     == /\ features.is_s7
                  /\ features.dst_port = 102
                  /\ (features.hour < 6 \/ features.hour > 22)
        threat_info == IF modbus
                       THEN [is_threat |-> TRUE, score |-> 80, type |-> "Modbus_Anomaly"]
                       ELSE [is_threat |-> FALSE, score |-> 0, type |-> "Normal"]
    IN  IF s7 THEN [is_threat |-> TRUE, score |-> 60, type |-> "S7_Off_Hours"]
        ELSE threat_info

\* the isolation forest block
IsolationForestStep ==
    /\ pc = "isolation_forest"
    /\ IF sample.iso = "anomaly"
       THEN /\ threat_score' = MaxScore(threat_score, 70)
            /\ threat_type' = "Anomaly"
       ELSE UNCHANGED <<threat_score, threat_type>>
    /\ pc' = "random_forest"
    /\ UNCHANGED <<sample, confidence, severity, alerts, pcapVars, raceVars, bcVars, batchVars, mlVars>>

\* the random forest block
RandomForestStep ==
    /\ pc = "random_forest"
    /\ IF sample.rf_class # NoClass /\ sample.rf_class # 0
       THEN /\ threat_score' = MaxScore(threat_score, sample.rf_proba)
            /\ threat_type' = "Classification_1"
       ELSE UNCHANGED <<threat_score, threat_type>>
    /\ pc' = "industrial"
    /\ UNCHANGED <<sample, confidence, severity, alerts, pcapVars, raceVars, bcVars, batchVars, mlVars>>

\* the industrial protocol block
IndustrialStep ==
    /\ pc = "industrial"
    /\ LET industrial_threat == analyze_industrial_protocols(sample)
       IN  IF industrial_threat.is_threat
           THEN /\ threat_score' = MaxScore(threat_score, industrial_threat.score)
                /\ threat_type' = industrial_threat.type
           ELSE UNCHANGED <<threat_score, threat_type>>
    /\ pc' = "confidence"
    /\ UNCHANGED <<sample, confidence, severity, alerts, pcapVars, raceVars, bcVars, batchVars, mlVars>>

\* confidence = min(threat_score * 1.2, 1.0), in thousandths
ConfidenceStep ==
    /\ pc = "confidence"
    /\ confidence' = (IF threat_score * 12 <= 1000 THEN threat_score * 12 ELSE 1000)
    /\ pc' = "done"
    /\ UNCHANGED <<sample, threat_score, threat_type, severity, alerts, pcapVars, raceVars, bcVars, batchVars, mlVars>>

\* a bucketing with strict comparisons
CalculateSeverityStrict(score) ==
    IF score > 90 THEN "CRITICAL"
    ELSE IF score > 80 THEN "HIGH"
    ELSE IF score > 70 THEN "MEDIUM"
    ELSE "LOW"

\* _calculate_severity
calculate_severity(score) ==
    IF score >= 90 THEN "CRITICAL"
    ELSE IF score >= 80 THEN "HIGH"
    ELSE IF score >= 70 THEN "MEDIUM"
    ELSE "LOW"

\* settings.THREAT_SCORE_THRESHOLD
THREAT_SCORE_THRESHOLD == 70

\* _check_for_threats for the prediction of the sample: an alert
\* (_create_threat_alert, with its severity) when the score is above the
\* threshold
CheckForThreats ==
    /\ pc = "done"
    /\ IF threat_score > THREAT_SCORE_THRESHOLD
       THEN /\ alerts' = alerts + 1
            /\ severity' = calculate_severity(threat_score)
       ELSE UNCHANGED <<alerts, severity>>
    /\ pc' = "checked"
    /\ UNCHANGED <<sample, threat_score, threat_type, confidence,
                   pcapVars, raceVars, bcVars, batchVars, mlVars>>

InitScore ==
    /\ PcapConstructed(0, 0, 0)
    /\ sample \in Samples
    /\ pc = "isolation_forest"
    /\ threat_score = 0
    /\ threat_type = "Normal"
    /\ confidence = 0
    /\ severity = ""
    /\ alerts = 0
    /\ RaceIdle
    /\ BroadcastIdle
    /\ BatchIdle
    /\ MlIdle

NextScore ==
    \/ IsolationForestStep
    \/ RandomForestStep
    \/ IndustrialStep
    \/ ConfidenceStep
    \/ CheckForThreats

SpecScore == InitScore /\ [][NextScore]_vars

\* _calculate_severity is called with the score
CalculateSeverityCall ==
    /\ pc = "severity"
    /\ severity' = calculate_severity(threat_score)
    /\ pc' = "severity_done"
    /\ UNCHANGED <<sample, threat_score, threat_type, confidence, alerts, pcapVars, raceVars, bcVars, batchVars, mlVars>>

InitSeverity ==
    /\ PcapConstructed(0, 0, 0)
    /\ sample = NoSample
    /\ pc = "severity"
    /\ threat_score \in 0..100
    /\ threat_type = "Normal"
    /\ confidence = 0
    /\ severity = ""
    /\ alerts = 0
    /\ RaceIdle
    /\ BroadcastIdle
    /\ BatchIdle
    /\ MlIdle

NextSeverity == CalculateSeverityCall

SpecSeverity == InitSeverity /\ [][NextSeverity]_vars

\* ------------------------------------------------------------ pinned ledger
\* A session in which the management API flags one ledger entry after the
\* other (the lowest file name not yet flagged), so that a ledger with every
\* entry pinned is reached.
UnpinnedNames(fl) == {fl[i].filename : i \in {j \in 1..Len(fl) : ~fl[j].prioritized}}

FlagNextUnpinned ==
    /\ UnpinnedNames(file_list) # {}
    /\ flag_file_for_training(Min(UnpinnedNames(file_list)))

NextPinned ==
    \/ StartScapy
    \/ capture_packets(SniffCount)
    \/ upload_external_file
    \/ FlagNextUnpinned

SpecPinned == Init /\ [][NextPinned]_vars

\* --------------------------------------------------------------- rotation
\* Scapy sessions whose sniff may also return a partial batch.  Every packet
\* has PacketBytes bytes, so the current file holds
\* packet_count * PacketBytes bytes.
PartialBatch == 50

PacketBytes == 1500

\* self.max_file_size (settings.MAX_PCAP_FILE_SIZE), scaled like
\* MAX_PACKETS_PER_FILE
max_file_size == 60000

CurrentFileSize == packet_count * PacketBytes

NextRotation ==
    \/ StartRejected
    \/ StartScapy
    \/ stop_capture_service
    \/ CaptureLoopExit
    \/ \E n \in {0, PartialBatch, SniffCount} : capture_packets(n)
    \/ RotateFile

SpecRotation == Init /\ [][NextRotation]_vars

\* ------------------------------------------------------------------ races
\* The rotation timer is a threading.Timer: _rotate_file runs on its own
\* thread, concurrently with the event loop thread that runs start, stop
\* and the capture loop, and no lock protects current_file_path,
\* packet_count or the ledger.  Here _rotate_file and _capture_packets are
\* split at the points where the other thread can run in between.  While
\* the capture task is inside the blocking wrpcap call the event loop runs
\* nothing else, so start, stop and the loop's exit wait for it.

\* the timer fires: _rotate_file evaluates its condition
RotateBegin ==
    /\ file_rotation_timer = "pending"
    /\ rotate_pc = "idle"
    /\ file_rotation_timer' = "finished"
    /\ rotate_pc' = IF capture_active /\ wireshark_process = "None"
                    THEN "checked" ELSE "idle"
    /\ last_op' = Op("timer_fired", NoFile,
                     capture_active /\ wireshark_process = "None")
    /\ UNCHANGED <<capture_active, wireshark_process, capture_loops, monitors,
                   current_file_path, packet_count, file_list,
                   prioritized_files, disk, nextId,
                   capture_budget, upload_budget, tshark_budget>>
    /\ UNCHANGED <<capture_pc, write_target, write_n>>
    /\ UNCHANGED <<scoreVars, bcVars, batchVars, mlVars>>

\* _rotate_file past its condition: new file, packet_count = 0,
\* _start_rotation_timer
RotateFinish ==
    /\ rotate_pc = "checked"
    /\ capture_budget > 0
    /\ current_file_path' = nextId
    /\ file_list' = DequeAppend(file_list, Entry(nextId))
    /\ disk' = CleanupOldFiles(disk, prioritized_files)
    /\ nextId' = nextId + 1
    /\ capture_budget' = capture_budget - 1
    /\ packet_count' = 0
    /\ file_rotation_timer' = "pending"
    /\ rotate_pc' = "idle"
    /\ last_op' = OpWithTimer("rotate", nextId, TRUE)
    /\ UNCHANGED <<capture_active, wireshark_process, capture_loops, monitors,
                   prioritized_files, upload_budget, tshark_budget>>
    /\ UNCHANGED <<capture_pc, write_target, write_n>>
    /\ UNCHANGED <<scoreVars, bcVars, batchVars, mlVars>>

\* _capture_packets up to the call of wrpcap: new file if needed, sniff
\* returns n packets, self.current_file_path is read as wrpcap's argument
CaptureBegin(n) ==
    /\ capture_loops > 0
    /\ capture_active
    /\ capture_pc = "idle"
    /\ LET create == current_file_path = NoFile
                     \/ packet_count >= MAX_PACKETS_PER_FILE
           path   == IF create THEN nextId ELSE current_file_path
       IN  /\ create => capture_budget > 0
           /\ current_file_path' = path
           /\ file_list' = IF create THEN DequeAppend(file_list, Entry(path))
                           ELSE file_list
           /\ nextId' = IF create THEN nextId + 1 ELSE nextId
           /\ capture_budget' = IF create THEN capture_budget - 1 ELSE capture_budget
           /\ disk' = IF create THEN CleanupOldFiles(disk, prioritized_files)
                      ELSE disk
           /\ packet_count' = IF create THEN 0 ELSE packet_count
           /\ IF n > 0
              THEN /\ capture_pc' = "writing"
                   /\ write_target' = path
                   /\ write_n' = n
              ELSE UNCHANGED <<capture_pc, write_target, write_n>>
           /\ last_op' = Op("capture_begin", path, n > 0)
    /\ UNCHANGED <<capture_active, wireshark_process, capture_loops, monitors,
                   file_rotation_timer, prioritized_files,
                   upload_budget, tshark_budget>>
    /\ UNCHANGED rotate_pc
    /\ UNCHANGED <<scoreVars, bcVars, batchVars, mlVars>>

\* wrpcap appends the batch to the file it was given;
\* self.packet_count += len(packets)
CaptureWrite ==
    /\ capture_pc = "writing"
    /\ disk' = WritePcap(disk, write_target)
    /\ packet_count' = packet_count + write_n
    /\ capture_pc' = "idle"
    /\ write_target' = NoFile
    /\ write_n' = 0
    /\ last_op' = Op("capture", write_target, TRUE)
    /\ UNCHANGED <<capture_active, wireshark_process, capture_loops, monitors,
                   current_file_path, file_rotation_timer, file_list,
                   prioritized_files, nextId,
                   capture_budget, upload_budget, tshark_budget>>
    /\ UNCHANGED rotate_pc
    /\ UNCHANGED <<scoreVars, bcVars, batchVars, mlVars>>

NextRace ==
    \/ capture_pc = "idle" /\ StartRejected
    \/ capture_pc = "idle" /\ StartScapy
    \/ capture_pc = "idle" /\ stop_capture_service
    \/ capture_pc = "idle" /\ CaptureLoopExit
    \/ \E n \in {0, SniffCount} : CaptureBegin(n)
    \/ CaptureWrite
    \/ RotateBegin
    \/ RotateFinish

SpecRace == Init /\ [][NextRace]_vars

\* -------------------------------------------------------------- broadcast
\* ConnectionManager of routers/network.py.  Websockets are numbered in the
\* order they connect.  broadcast iterates the live list active_connections
\* and suspends at every send_text: connect and disconnect of other
\* coroutines run while a send is awaited.  bc_index is the position of the
\* list iterator (the number of items it has yielded).
MaxConns == 3

\* ConnectionManager.connect (after websocket.accept())
connect ==
    /\ nextConn <= MaxConns
    /\ active_connections' = Append(active_connections, nextConn)
    /\ nextConn' = nextConn + 1
    /\ bc_undisturbed' = (bc_undisturbed /\ bc_pc = "idle")
    /\ UNCHANGED <<bc_pc, bc_index, bc_connection, disconnected, delivered,
                   bc_snapshot>>
    /\ UNCHANGED <<pcapVars, scoreVars, raceVars, batchVars, mlVars>>

\* ConnectionManager.disconnect, called by the websocket endpoint when its
\* client goes away
disconnect(websocket) ==
    /\ websocket \in Range(active_connections)
    /\ active_connections' = SeqFilter(active_connections, {websocket})
    /\ bc_undisturbed' = (bc_undisturbed /\ bc_pc = "idle")
    /\ UNCHANGED <<bc_pc, bc_index, bc_connection, disconnected, delivered,
                   bc_snapshot, nextConn>>
    /\ UNCHANGED <<pcapVars, scoreVars, raceVars, batchVars, mlVars>>

\* broadcast is called: disconnected = [], the for loop takes its first
\* connection and awaits send_text; with no connection it returns at once
BroadcastBegin ==
    /\ bc_pc = "idle"
    /\ disconnected' = <<>>
    /\ delivered' = <<>>
    /\ bc_snapshot' = active_connections
    /\ bc_undisturbed' = TRUE
    /\ IF active_connections = <<>>
       THEN /\ bc_index' = 0
            /\ bc_connection' = 0
            /\ bc_pc' = "idle"
       ELSE /\ bc_index' = 1
            /\ bc_connection' = active_connections[1]
            /\ bc_pc' = "sending"
    /\ UNCHANGED <<active_connections, nextConn>>
    /\ UNCHANGED <<pcapVars, scoreVars, raceVars, batchVars, mlVars>>

\* a broadcast in which the exception of a failed send leaves the loop
SendCompleteAbortOnFailure(outcome) ==
    /\ bc_pc = "sending"
    /\ IF outcome = "ok"
       THEN LET sent == Append(delivered, bc_connection)
            IN  /\ delivered' = sent
                /\ IF bc_index < Len(active_connections)
                   THEN /\ bc_index' = bc_index + 1
                        /\ bc_connection' = active_connections[bc_index + 1]
                        /\ UNCHANGED <<bc_pc, active_connections>>
                   ELSE /\ active_connections' =
                               SeqFilter(active_connections, Range(disconnected))
                        /\ bc_pc' = "idle"
                        /\ UNCHANGED <<bc_index, bc_connection>>
                /\ UNCHANGED disconnected
       ELSE /\ bc_pc' = "idle"
            /\ UNCHANGED <<active_connections, bc_index, bc_connection,
                           disconnected, delivered>>
    /\ UNCHANGED <<bc_snapshot, bc_undisturbed, nextConn>>
    /\ UNCHANGED <<pcapVars, scoreVars, raceVars, batchVars, mlVars>>

\* the awaited send_text returns ("ok") or raises ("fail"); the loop goes on
\* to the next item of the list, and after the last one the connections
\* collected in disconnected are removed and broadcast returns
SendComplete(outcome) ==
    /\ bc_pc = "sending"
    /\ LET sent == IF outcome = "ok" THEN Append(delivered, bc_connection)
                   ELSE delivered
           gone == IF outcome = "ok" THEN disconnected
                   ELSE Append(disconnected, bc_connection)
       IN  /\ delivered' = sent
           /\ disconnected' = gone
           /\ IF bc_index < Len(active_connections)
              THEN /\ bc_index' = bc_index + 1
                   /\ bc_connection' = active_connections[bc_index + 1]
                   /\ UNCHANGED <<bc_pc, active_connections>>
              ELSE /\ active_connections' =
                          SeqFilter(active_connections, Range(gone))
                   /\ bc_pc' = "idle"
                   /\ UNCHANGED <<bc_index, bc_connection>>
    /\ UNCHANGED <<bc_snapshot, bc_undisturbed, nextConn>>
    /\ UNCHANGED <<pcapVars, scoreVars, raceVars, batchVars, mlVars>>

\* the peer stops reading: the awaited send_text never completes (the send
\* has no timeout)
SendBlocks ==
    /\ bc_pc = "sending"
    /\ bc_pc' = "blocked"
    /\ UNCHANGED <<active_connections, bc_index, bc_connection, disconnected,
                   delivered, bc_snapshot, bc_undisturbed, nextConn>>
    /\ UNCHANGED <<pcapVars, scoreVars, raceVars, batchVars, mlVars>>

InitBroadcast ==
    /\ PcapConstructed(0, 0, 0)
    /\ ScoreIdle
    /\ RaceIdle
    /\ BroadcastIdle
    /\ BatchIdle
    /\ MlIdle

NextBroadcast ==
    \/ connect
    \/ \E websocket \in 1..MaxConns : disconnect(websocket)
    \/ BroadcastBegin
    \/ \E outcome \in {"ok", "fail"} : SendComplete(outcome)
    \/ SendBlocks

SpecBroadcast == InitBroadcast /\ [][NextBroadcast]_vars

\* an awaited send that can complete does complete
SpecBroadcastFair ==
    /\ InitBroadcast
    /\ [][NextBroadcast]_vars
    /\ WF_vars(\E outcome \in {"ok", "fail"} : SendComplete(outcome))

\* --------------------------------------------------------- batch pipeline
\* One _capture_loop task: _capture_packets sniffs a batch and awaits
\* _process_packets (feature extraction, analyze_network_traffic,
\* _check_for_threats) before it returns to the loop.  A packet is described
\* by whether feature extraction can read it and by the threat score (in
\* hundredths) the models give to its features; packets are named by their
\* position in the batch.
MaxBatch == 3

PacketKinds == [parsable : BOOLEAN, score : {50, 90}]

Batches == UNION {[1..n -> PacketKinds] : n \in 0..MaxBatch}

\* the loop sniffs its next batch; an empty batch is not processed
SniffBatch ==
    /\ batch_pc \in {"idle", "checked"}
    /\ \E packets \in Batches :
          /\ batch' = packets
          /\ batch_pc' = IF packets = <<>> THEN "checked" ELSE "captured"
    /\ batch_features' = <<>>
    /\ predictions' = <<>>
    /\ alert_log' = <<>>
    /\ UNCHANGED skipped_counter
    /\ UNCHANGED <<pcapVars, scoreVars, raceVars, bcVars, mlVars>>

RECURSIVE ExtractFrom(_, _)
\* the loop of _extract_packet_features from packet i on: a packet whose
\* extraction raises is logged and skipped (continue)
ExtractFrom(packets, i) ==
    IF i > Len(packets) THEN <<>>
    ELSE (IF packets[i].parsable THEN <<i>> ELSE <<>>)
         \o ExtractFrom(packets, i + 1)

\* _extract_packet_features
extract_packet_features(packets) == ExtractFrom(packets, 1)

\* _process_packets, first part: the features of the batch; with no
\* features nothing is analysed
ExtractFeatures ==
    /\ batch_pc = "captured"
    /\ batch_features' = extract_packet_features(batch)
    /\ batch_pc' = IF batch_features' = <<>> THEN "checked" ELSE "extracted"
    /\ UNCHANGED <<batch, predictions, alert_log, skipped_counter>>
    /\ UNCHANGED <<pcapVars, scoreVars, raceVars, bcVars, mlVars>>

\* analyze_network_traffic: one prediction per feature row, in order; when
\* the analysis raises, one error record (no threat_score) per row
AnalyzeTraffic(analysis_raises) ==
    /\ batch_pc = "extracted"
    /\ predictions' =
          [i \in 1..Len(batch_features) |->
              [of |-> batch_features[i],
               threat_score |-> IF analysis_raises THEN 0
                                ELSE batch[batch_features[i]].score]]
    /\ batch_pc' = "scored"
    /\ UNCHANGED <<batch, batch_features, alert_log, skipped_counter>>
    /\ UNCHANGED <<pcapVars, scoreVars, raceVars, bcVars, mlVars>>

RECURSIVE ZipAlerts(_, _, _, _)
\* the loop of _check_for_threats over zip(packets, predictions) from
\* position i on: an alert for packets[i] when predictions[i] is above the
\* threshold, unless _create_threat_alert raises on the packet
ZipAlerts(packets, preds, i, alert_raises) ==
    IF i > Len(packets) \/ i > Len(preds) THEN <<>>
    ELSE (IF /\ preds[i].threat_score > THREAT_SCORE_THRESHOLD
             /\ (packets[i].parsable \/ ~alert_raises)
          THEN <<[packet |-> i, prediction_of |-> preds[i].of,
                  threat_score |-> preds[i].threat_score]>>
          ELSE <<>>)
         \o ZipAlerts(packets, preds, i + 1, alert_raises)

\* _check_for_threats; then _capture_packets returns to the loop
CheckBatchForThreats(alert_raises) ==
    /\ batch_pc = "scored"
    /\ alert_log' = ZipAlerts(batch, predictions, 1, alert_raises)
    /\ batch_pc' = "checked"
    /\ UNCHANGED <<batch, batch_features, predictions, skipped_counter>>
    /\ UNCHANGED <<pcapVars, scoreVars, raceVars, bcVars, mlVars>>

InitBatch ==
    /\ PcapConstructed(0, 0, 0)
    /\ ScoreIdle
    /\ RaceIdle
    /\ BroadcastIdle
    /\ BatchIdle
    /\ MlIdle

NextBatch ==
    \/ SniffBatch
    \/ ExtractFeatures
    \/ \E analysis_raises \in BOOLEAN : AnalyzeTraffic(analysis_raises)
    \/ \E alert_raises \in BOOLEAN : CheckBatchForThreats(alert_raises)

SpecBatch == InitBatch /\ [][NextBatch]_vars

\* ----------------------------------------------------------------- claims
RegistrationOps == {"capture", "rotate", "upload", "check_new_files"}

\* C1: the ledger never holds more than N = 15 entries, after every
\* operation (starts, rotations, uploads), in particular when no file is
\* pinned.
C1_LedgerBounded == Len(file_list) <= max_files_to_keep

\* a registration into a full ledger has happened, with no file pinned
C1_Witness ==
    /\ prioritized_files = {}
    /\ last_op.op = "upload"
    /\ Len(file_list) = max_files_to_keep
    /\ Range(disk) \ Filenames(file_list) # {}

\* C2: a registration (rotation, upload, new-file detection) never removes a
\* pinned file: a file that is pinned and in the ledger and on disk before the
\* step is in the ledger and on disk after it.
C2_PinnedNeverEvicted ==
    [][\A f \in prioritized_files :
          (/\ last_op'.op \in RegistrationOps
           /\ f \in Filenames(file_list)
           /\ f \in Range(disk))
          => (f \in Filenames(file_list') /\ f \in Range(disk'))]_vars

\* C3: start_capture_service while a session is capturing is rejected and
\* changes nothing of the session, the current file, the packet counter,
\* the ledger or the directory.
C3_StartRejectedNoChange ==
    [][(capture_active /\ last_op'.op = "start")
          => (/\ ~last_op'.ok
              /\ UNCHANGED <<capture_active, wireshark_process, capture_loops,
                             monitors, current_file_path, packet_count,
                             file_rotation_timer, file_list,
                             prioritized_files, disk, nextId>>)]_vars

\* a start was rejected while a session with a current file was capturing
C3_Witness ==
    /\ last_op.op = "start"
    /\ ~last_op.ok
    /\ capture_active
    /\ capture_loops = 1
    /\ current_file_path # NoFile

\* packet producers that capture while the session is active
Producers ==
    IF capture_active
    THEN capture_loops + (IF wireshark_process = "running" THEN 1 ELSE 0)
    ELSE 0

\* C4: at most one packet producer (a _capture_loop task or a tshark
\* process) is capturing at any time.
C4_AtMostOneProducer == Producers <= 1

\* C5: during a session, the file being written (current_file_path) is never
\* deleted from the directory by a cleanup.
C5_CurrentFileNotEvicted ==
    [][(capture_active' /\ current_file_path' \in Range(disk))
          => current_file_path' \in Range(disk')]_vars

\* C6: with no pinned files, after a registration into a full ledger the
\* ledger holds the N most recently created files: every file that is not
\* listed is older than every file that is listed.
C6_LedgerHoldsMostRecent ==
    (/\ prioritized_files = {}
     /\ last_op.op \in RegistrationOps
     /\ Len(file_list) = max_files_to_keep)
    => \A f \in Filenames(file_list) :
          \A g \in (1..(nextId - 1)) \ Filenames(file_list) : g < f

\* the oldest file of a directory that is not pinned (NoFile if all are)
OldestUnpinned(d, prio) ==
    IF Range(d) \subseteq prio THEN NoFile
    ELSE d[Min({i \in 1..Len(d) : d[i] \notin prio})]

\* C7: when an upload pushes the directory over N files while its oldest
\* file is pinned, the pinned file survives, the oldest unpinned file is
\* removed instead and N files are retained.
C7_PinnedOldestSkipped ==
    [][(/\ last_op'.op = "upload"
        /\ Len(disk) = max_files_to_keep
        /\ Head(disk) \in prioritized_files
        /\ OldestUnpinned(disk, prioritized_files) # NoFile)
          => (/\ Head(disk) \in Range(disk')
              /\ OldestUnpinned(disk, prioritized_files) \notin Range(disk')
              /\ Len(disk') = max_files_to_keep)]_vars

\* the cleanup would delete the file once max_files_to_keep newer files exist
EligibleForCleanup(f, prio) ==
    LET newer == [i \in 1..max_files_to_keep |-> nextId + i]
    IN  f \notin Range(CleanupOldFiles(<<f>> \o newer, prio))

\* C8: flag_file_for_training(f) directly followed by
\* unflag_file_for_training(f), for a file of the ledger, leaves every entry
\* of f unprioritized, its path out of prioritized_files, and the file
\* eligible for deletion by the cleanup.
C8_FlagUnflagRoundTrip ==
    (last_op.op = "unflag" /\ last_op.after_flag)
    => (/\ \A i \in 1..Len(file_list) :
              file_list[i].filename = last_op.arg => ~file_list[i].prioritized
        /\ last_op.arg \notin prioritized_files
        /\ EligibleForCleanup(last_op.arg, prioritized_files))

\* an unflag of a listed file directly after its flag
C8_Witness ==
    /\ last_op.op = "unflag"
    /\ last_op.after_flag
    /\ last_op.ok
    /\ last_op.arg \in Filenames(file_list)
    /\ last_op.arg \in Range(disk)

Max(S) == CHOOSE x \in S : \A y \in S : y <= x

\* the scores of the detectors that fire on a sample
FiringScores(s) ==
    (IF s.iso = "anomaly" THEN {70} ELSE {})
    \cup (IF s.rf_class \notin {NoClass, 0} THEN {s.rf_proba} ELSE {})
    \cup (IF s.is_modbus /\ s.dst_port = 502
             /\ (s.payload_size = 0 \/ s.payload_size > 1000)
          THEN {80} ELSE {})
    \cup (IF s.is_s7 /\ s.dst_port = 102 /\ (s.hour < 6 \/ s.hour > 22)
          THEN {60} ELSE {})

\* C9: the final threat_score of a sample is the maximum of the scores of
\* the detectors that fired on it (0 when none fired), and no detector that
\* fires lowers the score reached so far.
C9_ScoreIsMaxOfFiring ==
    /\ [](pc = "done" => threat_score = Max(FiringScores(sample) \cup {0}))
    /\ [][threat_score' >= threat_score]_vars

\* two detectors fired and the later one had the lower score
C9_Witness ==
    /\ pc = "done"
    /\ sample.iso = "anomaly"
    /\ sample.rf_class = 1
    /\ sample.rf_proba = 50
    /\ threat_score = 70

\* C10: _calculate_severity maps a score to exactly one bucket with the
\* boundaries 0.9, 0.8 and 0.7 belonging to the upper bucket: CRITICAL from
\* 0.9, HIGH on [0.8, 0.9), MEDIUM on [0.7, 0.8), LOW below 0.7.
C10_SeverityBuckets ==
    pc = "severity_done" =>
        /\ (severity = "CRITICAL") = (threat_score >= 90)
        /\ (severity = "HIGH") = (threat_score >= 80 /\ threat_score < 90)
        /\ (severity = "MEDIUM") = (threat_score >= 70 /\ threat_score < 80)
        /\ (severity = "LOW") = (threat_score < 70)
        /\ (threat_score = 95 => severity = "CRITICAL")
        /\ (threat_score = 85 => severity = "HIGH")
        /\ (threat_score = 75 => severity = "MEDIUM")
        /\ (threat_score = 50 => severity = "LOW")

\* the boundary score 0.8 has been bucketed
C10_Witness ==
    /\ pc = "severity_done"
    /\ threat_score = 80
    /\ severity = "HIGH"

\* C11: a record with is_modbus, dst_port = 502 and an empty or oversized
\* payload gets threat_score >= 0.8 and threat_type 'Modbus_Anomaly',
\* whatever the isolation forest and the random forest return.
C11_ModbusAnomaly ==
    (/\ pc = "done"
     /\ sample.is_modbus
     /\ sample.dst_port = 502
     /\ (sample.payload_size = 0 \/ sample.payload_size > 1000))
    => (threat_score >= 80 /\ threat_type = "Modbus_Anomaly")

\* an empty Modbus payload scored while both models fired, one above 0.8
C11_Witness ==
    /\ pc = "done"
    /\ sample.is_modbus
    /\ sample.dst_port = 502
    /\ sample.payload_size = 0
    /\ sample.iso = "anomaly"
    /\ sample.rf_class = 1
    /\ sample.rf_proba = 95
    /\ threat_type = "Modbus_Anomaly"

\* C12: a scored packet gets an alert exactly when its threat_score is at
\* least THREAT_SCORE_THRESHOLD, and never more than one.
C12_AlertIffAtThreshold ==
    pc = "checked" =>
        /\ (alerts >= 1) = (threat_score >= THREAT_SCORE_THRESHOLD)
        /\ alerts <= 1

\* the score and label of each detector that fires on a sample
FiringLabels(s) ==
    (IF s.iso = "anomaly" THEN {<<70, "Anomaly">>} ELSE {})
    \cup (IF s.rf_class \notin {NoClass, 0}
          THEN {<<s.rf_proba, "Classification_1">>} ELSE {})
    \cup (IF s.is_modbus /\ s.dst_port = 502
             /\ (s.payload_size = 0 \/ s.payload_size > 1000)
          THEN {<<80, "Modbus_Anomaly">>} ELSE {})
    \cup (IF s.is_s7 /\ s.dst_port = 102 /\ (s.hour < 6 \/ s.hour > 22)
          THEN {<<60, "S7_Off_Hours">>} ELSE {})

\* C13: the threat_type is the label of a detector that produced the
\* maximum score, the anomaly detector's label when it is among them, and
\* 'Normal' when no detector fired.
C13_TypeOfMaxDetector ==
    pc = "done" =>
        LET fired == FiringLabels(sample)
            top   == {d \in fired : \A e \in fired : e[1] <= d[1]}
        IN  IF fired = {} THEN threat_type = "Normal"
            ELSE IF \E d \in top : d[2] = "Anomaly" THEN threat_type = "Anomaly"
            ELSE \E d \in top : threat_type = d[2]

\* C14: when broadcast has returned, every subscriber whose send failed is
\* out of active_connections, and (no connect or disconnect having run
\* meanwhile) the message was sent to every other subscriber that was
\* active when the broadcast began; a failed send never ends the loop.
C14_FailedSubscriberDropped ==
    bc_pc = "idle" =>
        /\ Range(disconnected) \cap Range(active_connections) = {}
        /\ Range(disconnected) \cap Range(delivered) = {}
        /\ bc_undisturbed =>
               Range(bc_snapshot) = Range(delivered) \cup Range(disconnected)

\* the send to the first of three subscribers failed and the two others
\* received the message
C14_Witness ==
    /\ bc_pc = "idle"
    /\ bc_undisturbed
    /\ bc_snapshot = <<1, 2, 3>>
    /\ disconnected = <<1>>
    /\ delivered = <<2, 3>>
    /\ active_connections = <<2, 3>>

\* C15: a send that blocks does not stall the fan-out: the broadcast
\* returns (the pipeline goes on) and the blocked subscriber is removed.
C15_BlockedDoesNotStall ==
    (bc_pc = "blocked")
        ~> (bc_pc = "idle" /\ bc_connection \notin Range(active_connections))

\* C16: when tshark has terminated during a session and the monitor task
\* has dealt with it (no monitor is left), either the fallback producer
\* (the in-process capture loop) is running or the session is no longer
\* marked as capturing.
C16_FallbackAfterTsharkExit ==
    (wireshark_process = "exited" /\ monitors = 0)
        => (capture_loops > 0 \/ ~capture_active)

\* C17: a batch is written to the file that is already current only if
\* neither the packet count nor the size of that file has reached its
\* limit.
C17_NoBatchPastLimit ==
    [][(/\ current_file_path' = current_file_path
        /\ current_file_path # NoFile
        /\ packet_count' > packet_count)
       => (/\ packet_count < MAX_PACKETS_PER_FILE
           /\ CurrentFileSize < max_file_size)]_vars

\* C18: while the session is idle (before the first start and from the
\* completion of stop_capture_service to the next start) no rotation timer
\* is pending and no rotation creates a capture file.
C18_IdleAfterStop ==
    /\ [](~capture_active => file_rotation_timer # "pending")
    /\ [][(~capture_active /\ ~capture_active')
            => (current_file_path' = current_file_path
                /\ file_list' = file_list)]_vars

\* C20: the file a packet batch is written to is the current file at the
\* time of the write, never one that a rotation has already replaced.
C20_WriteToCurrentFile ==
    [][(capture_pc = "writing" /\ capture_pc' = "idle")
       => write_target = current_file_path]_vars

\* C19: a registration into a full ledger whose entries are all pinned
\* evicts nothing: every entry stays in the ledger, which then holds more
\* than N entries, and every pinned file stays on disk.
C19_AllPinnedNoEviction ==
    [][(/\ Len(file_list) = max_files_to_keep
        /\ \A i \in 1..Len(file_list) : file_list[i].prioritized
        /\ nextId' # nextId
        /\ nextId \in Filenames(file_list'))
       => (/\ Filenames(file_list) \subseteq Filenames(file_list')
           /\ Len(file_list') > max_files_to_keep
           /\ Filenames(file_list) \cap Range(disk)
                  \subseteq Range(disk'))]_vars

\* C21: every rotation of an in-process session (a step that replaces the
\* current file by a new one) resets the packet counter for the new file
\* and restarts the rotation timer, and a timer is pending after it.
C21_RotationRestartsTimer ==
    [][(/\ capture_active
        /\ wireshark_process = "None"
        /\ current_file_path # NoFile
        /\ current_file_path' # current_file_path)
       => (/\ current_file_path' = nextId
           /\ packet_count' \in {0, SniffCount}
           /\ file_rotation_timer' = "pending"
           /\ last_op'.timer_started)]_vars

\* C22: with no pinned file, after a registration of a session (whose start
\* has loaded the ledger from the directory) the closed files on disk
\* are exactly the closed files of the ledger (the current file aside), so
\* no entry names a deleted file and no closed file on disk lacks an entry.
C22_DiskMatchesLedger ==
    (/\ capture_active
     /\ prioritized_files = {}
     /\ last_op.op \in RegistrationOps)
        => (Filenames(file_list) \ {current_file_path}
                = Range(disk) \ {current_file_path})

\* the ledger entry with the file name
EntryOf(fl, f) == fl[FirstMatch(fl, f)]

\* C23: when the in-process session closes its current file (a step that
\* replaces it by a new one), the ledger entry of the closed file records
\* the number of packets that were written to it.
C23_ClosedEntryHasPacketCount ==
    [][(/\ wireshark_process = "None"
        /\ current_file_path # NoFile
        /\ current_file_path' # current_file_path
        /\ current_file_path \in Filenames(file_list'))
       => EntryOf(file_list', current_file_path).packet_count = packet_count]_vars

\* the positions of the packets of a batch that cannot be parsed
Unparsable(packets) == {i \in 1..Len(packets) : ~packets[i].parsable}

\* C24: feature extraction of a batch returns the features of exactly the
\* parsable packets, in the order of the batch, adds the number of skipped
\* packets to the skipped-packet counter, and the pipeline goes on.
C24_ExtractionSkipsAndCounts ==
    [][(batch_pc = "captured" /\ batch_pc' # "captured")
       => (/\ batch_pc' \in {"extracted", "checked"}
           /\ Range(batch_features') = (1..Len(batch)) \ Unparsable(batch)
           /\ \A i, j \in 1..Len(batch_features') :
                  i < j => batch_features'[i] < batch_features'[j]
           /\ skipped_counter'
                  = skipped_counter + Cardinality(Unparsable(batch)))]_vars

\* C25: the capture of the next batch never waits for the processing of an
\* earlier batch: while a batch is being extracted or scored, the loop can
\* sniff.
C25_CaptureNeverWaits ==
    (batch_pc \in {"captured", "extracted", "scored"}) => ENABLED SniffBatch

\* C26: every alert is about the packet whose features produced its
\* prediction.
C26_AlertDescribesScoredPacket ==
    \A i \in 1..Len(alert_log) : alert_log[i].packet = alert_log[i].prediction_of

\* C27: _check_for_new_files treats no file as new more than once.
C27_DetectedAtMostOnce ==
    \A i, j \in 1..Len(detected_files) :
        i # j => detected_files[i] # detected_files[j]

\* the number of times x occurs in the sequence s
Occurrences(s, x) == Cardinality({i \in 1..Len(s) : s[i] = x})

\* C28: when a broadcast has returned, every subscriber that was connected
\* when it began and is still connected has received the message exactly
\* once, whatever connects and disconnects ran during the broadcast.
C28_NoSubscriberSkipped ==
    bc_pc = "idle" =>
        \A c \in Range(bc_snapshot) \cap Range(active_connections) :
            Occurrences(delivered, c) = 1

\* C29: no two ledger entries have the same filename.
C29_UniqueFilenames ==
    \A i, j \in 1..Len(file_list) :
        i # j => file_list[i].filename # file_list[j].filename

\* C30: a path is in prioritized_files exactly when a ledger entry with
\* that path has prioritized = true.
C30_PinBookkeeping ==
    prioritized_files
        = {file_list[i].filename : i \in {j \in 1..Len(file_list) : file_list[j].prioritized}}

====
